---- MODULE Spec2Model ----
(***************************************************************************)
(* AevoClient (src/aevo.py) and the part of main() (src/aevo_trade.py)     *)
(* that drives it: one shared connection handle, the receive loop          *)
(* (message_handler), the heartbeat loop (start_heartbeat) and a caller    *)
(* (main) that opens the connection and issues subscribe calls.            *)
(*                                                                         *)
(* The three coroutines are cooperative asyncio tasks: a task runs from    *)
(* one await of real I/O (socket send, recv, ping, close, connect, sleep)  *)
(* to the next without interruption.  Every action below resumes one task  *)
(* at the await it is suspended on and runs the code up to the next await. *)
(* The code between two awaits is written as operators from a state record *)
(* to a state record, named after the methods they are translated from.    *)
(***************************************************************************)
EXTENDS Integers, Sequences, FiniteSets, TLC

VARIABLES
    connection,           \* self.connection: None or a connection id
    status,               \* per connection id: "unborn", "open", "closedErr", "closedOK"
    sent,                 \* per connection id: the frames written on it, in order
    subscribed_channels,  \* self.subscribed_channels
    orders,               \* self.orders
    tickers,              \* self.tickers: the assets that have a stored ticker
    api_auth,             \* api_key and wallet_address are both configured
    pc,                   \* per task: the await it is suspended on
    ret,                  \* per task: the caller reconnect()/open_connection() returns to
    idx,                  \* per task: position of resubscribe_channels' for loop
    wconn,                \* per task: the connection its pending recv(), ping() or send() was issued on
    snd,                  \* per task: observation of its current/last send() invocation
    created,              \* the create_order() calls made so far, in order
    fillsSeen,            \* the well-formed fills frames dispatched so far, in order
    subCalls,             \* channels of the subscribe calls that returned normally
    clop,                 \* the caller's last operation and how it ended
    ndrops,               \* connections dropped by the peer so far
    nframes,              \* frames delivered to the receive loop so far
    ncalls,               \* operations issued by the caller so far
    rxfail,               \* the connection the loop's last recv() found closed, None after a recv() that did not fail
    dispatched,           \* per frame the loop decoded or failed to decode: what was run for it
    confirmations,        \* the frames subscribe_ticker's recv() returned and took for its confirmation
    calc,                 \* a direct call of calculate_opposite_price: arguments and result
    built                 \* a direct call of an order builder: arguments, signed struct, payload

vars == <<connection, status, sent, subscribed_channels, orders, tickers, api_auth, pc, ret, idx,
          wconn, snd, created, fillsSeen, subCalls, clop, ndrops, nframes,
          ncalls, rxfail, dispatched, confirmations, calc, built>>

(******************************* bounds ************************************)
MaxConn   == 3    \* connections the peer accepts; later connects are refused
MaxDrops  == 1    \* connections the peer drops
MaxFrames == 2    \* frames the peer delivers
MaxCalls  == 3    \* operations the caller issues after the initial open
CntCap    == 3    \* per-send counters saturate here

None == 0

Conns == 1..MaxConn
Tasks == {"cl", "rx", "hb"}

Min(a, b) == IF a < b THEN a ELSE b

(***************************** wire frames *********************************)
\* "by" records which code path wrote the frame; the bytes on the wire are
\* the same for a subscribe frame written by a subscribe call and by the
\* replay of resubscribe_channels.
AuthFrame == [op |-> "auth", arg |-> "key", by |-> "open"]
SubFrame(ch, by) == [op |-> "subscribe", arg |-> ch, by |-> by]
OrderFrame(side) == [op |-> "create_order", arg |-> side, by |-> "send"]

\* subscribe_orders / subscribe_fills write on the handle and register the channel
DirectChannels == {"orders", "fills"}
\* subscribe_trades / subscribe_index / subscribe_tickers / subscribe_markprice
\* go through send() and do not touch subscribed_channels
SendChannels == {"trades:ETH-PERP", "index:ETH"}

(**************************** inbound frames *******************************)
NoFill == [order_id |-> "", price |-> "", filled |-> "", side |-> "", instrument_id |-> ""]
Fill(p, q, sd, ins) ==
    [order_id |-> "0xa1", price |-> p, filled |-> q, side |-> sd, instrument_id |-> ins]

\* decodable = FALSE: json.loads raises JSONDecodeError.
\* channel "" : the frame carries no channel (a subscribe acknowledgement).
Msg(ch, f) == [decodable |-> TRUE, channel |-> ch, hasfill |-> f # NoFill, fill |-> f]
Garbage == [decodable |-> FALSE, channel |-> "", hasfill |-> FALSE, fill |-> NoFill]

InFrames ==
    { Garbage,
      Msg("", NoFill),
      Msg("ticker:ETH-PERP", NoFill),
      Msg("orders", NoFill),
      Msg("index:ETH", NoFill),
      Msg("fills", NoFill),
      Msg("fills", Fill("3200.5", "0.003", "buy", "1")),
      Msg("fills", Fill("3200.5", "0.003", "sell", "1")),
      Msg("fills", Fill("3200.5", "1", "BUY", "2")),
      Msg("fills", Fill("", "0.003", "buy", "1")),
      Msg("fills", Fill("abc", "0.003", "sell", "1")) }

\* float(str) / int(str) succeed on these strings and raise ValueError on others
FloatStrings == {"3200.5", "0.003", "1"}
IntStrings == {"1", "2"}

\* str.lower() on the side strings that occur
Lower(sd) == IF sd = "BUY" THEN "buy" ELSE IF sd = "SELL" THEN "sell" ELSE sd

(************************** the state as a record **************************)
St == [connection |-> connection, status |-> status, sent |-> sent,
       subscribed_channels |-> subscribed_channels, orders |-> orders,
       tickers |-> tickers, api_auth |-> api_auth,
       pc |-> pc, ret |-> ret, idx |-> idx, wconn |-> wconn, snd |-> snd,
       created |-> created, fillsSeen |-> fillsSeen, subCalls |-> subCalls,
       clop |-> clop, ndrops |-> ndrops, nframes |-> nframes,
       ncalls |-> ncalls, rxfail |-> rxfail, dispatched |-> dispatched,
       confirmations |-> confirmations,
       calc |-> calc, built |-> built]

Becomes(s) ==
    /\ connection' = s.connection
    /\ status' = s.status
    /\ sent' = s.sent
    /\ subscribed_channels' = s.subscribed_channels
    /\ orders' = s.orders
    /\ tickers' = s.tickers
    /\ api_auth' = s.api_auth
    /\ pc' = s.pc
    /\ ret' = s.ret
    /\ idx' = s.idx
    /\ wconn' = s.wconn
    /\ snd' = s.snd
    /\ created' = s.created
    /\ fillsSeen' = s.fillsSeen
    /\ subCalls' = s.subCalls
    /\ clop' = s.clop
    /\ ndrops' = s.ndrops
    /\ nframes' = s.nframes
    /\ ncalls' = s.ncalls
    /\ rxfail' = s.rxfail
    /\ dispatched' = s.dispatched
    /\ confirmations' = s.confirmations
    /\ calc' = s.calc
    /\ built' = s.built

NoFrame == [op |-> "", arg |-> "", by |-> ""]
NoSend == [data |-> NoFrame, first |-> "none", nrc |-> 0, nretx |-> 0, wrote |-> 0,
           res |-> "none", live |-> FALSE]

\* no direct call of calculate_opposite_price
\* (configured: the grid_interval message_handler was called with, in
\* thousandths, when the call is made through the loop; 0 otherwise)
NoCalc == [filled_price |-> 0, is_buy |-> FALSE, grid_interval |-> 0,
           price_decimals |-> 0, result |-> 0, applied |-> FALSE, configured |-> 0]

\* the client after AevoClient(...)
ClientInit ==
    /\ connection = None
    /\ status = [k \in Conns |-> "unborn"]
    /\ sent = [k \in Conns |-> <<>>]
    /\ subscribed_channels = <<>>
    /\ orders = <<>>
    /\ tickers = {}
    /\ api_auth \in BOOLEAN
    /\ pc = [t \in Tasks |-> IF t = "cl" THEN "main_open" ELSE "unborn"]
    /\ ret = [t \in Tasks |-> "none"]
    /\ idx = [t \in Tasks |-> 0]
    /\ wconn = [t \in Tasks |-> None]
    /\ snd = [t \in Tasks |-> NoSend]
    /\ created = <<>>
    /\ fillsSeen = <<>>
    /\ subCalls = <<>>
    /\ clop = [op |-> "none", ch |-> "", res |-> "none"]
    /\ ndrops = 0
    /\ nframes = 0
    /\ ncalls = 0
    /\ rxfail = None
    /\ dispatched = <<>>
    /\ confirmations = <<>>

\* no direct call of an order builder
NoOrder == [limitPrice |-> 0, amount |-> 0, price_decimals |-> 0, amount_decimals |-> 0]
NoBuilt == [builder |-> "", is_buy |-> FALSE, limit_price |-> 0, quantity |-> 0,
            price_decimals |-> 0, amount_decimals |-> 0,
            signed |-> NoOrder, payload |-> NoOrder, done |-> FALSE]

Init == ClientInit /\ calc = NoCalc /\ built = NoBuilt

(******************** values carried by fills and orders *******************)
\* Prices and quantities are held in thousandths: float("3200.5") is 3200500.
Pow10(n) == IF n <= 0 THEN 1 ELSE IF n = 1 THEN 10 ELSE IF n = 2 THEN 100 ELSE 1000
Scale == Pow10(3)
FloatOf(str) ==
    CASE str = "3200.5" -> 3200500
      [] str = "0.003" -> 3
      [] str = "1" -> 1000
      [] OTHER -> 0
IntOf(str) == IF str = "1" THEN 1 ELSE IF str = "2" THEN 2 ELSE 0

GridInterval == 5      \* grid_interval of main()
PriceDecimals == 2     \* price_decimals of main()

\* int(x) of Python on a float held in thousandths: truncation toward zero
IntOfFloat(x) == IF x >= 0 THEN x \div Scale ELSE -((-x) \div Scale)

\* line 229 of message_handler: grid_interval = int(grid_interval), on the
\* configured interval in thousandths; the loop prices with the result
LoopInterval(grid_interval) == IntOfFloat(grid_interval)

\* round(x, d) of Python on a value held in thousandths: to the nearest multiple
\* of 10^(3-d) thousandths, a tie going to the even multiple.
RoundTo(x, d) ==
    LET u == Pow10(3 - d)
        q == x \div u
        r == x % u
    IN  IF 2 * r < u THEN q * u
        ELSE IF 2 * r > u THEN (q + 1) * u
        ELSE IF q % 2 = 0 THEN q * u ELSE (q + 1) * u

\* an opposite price with the two branches exchanged
calculate_opposite_price_exchanged(filled_price, is_buy, grid_interval, price_decimals) ==
    RoundTo(IF is_buy THEN filled_price + grid_interval * Scale
                      ELSE filled_price - grid_interval * Scale,
            price_decimals)

calculate_opposite_price(filled_price, is_buy, grid_interval, price_decimals) ==
    RoundTo(IF is_buy THEN filled_price - grid_interval * Scale
                      ELSE filled_price + grid_interval * Scale,
            price_decimals)

TickerChannels == {"ticker:ETH-PERP"}
AssetOf(ch) == IF ch = "ticker:ETH-PERP" THEN "ETH-PERP" ELSE ch

(*********************** the socket, as the code sees it *******************)
\* What connection.send does on the handle k: AttributeError on None, the
\* frame is written on an open connection, ConnectionClosedError on one that
\* closed abnormally, ConnectionClosedOK (not a ConnectionClosedError) on one
\* that closed normally, which is also how the client's own close() leaves it.
WriteOutcome(s, k) ==
    IF k = None THEN "attr"
    ELSE IF s.status[k] = "open" THEN "ok"
    ELSE IF s.status[k] = "closedErr" THEN "cce"
    ELSE "other"

Wire(s, k, f) == [s EXCEPT !.sent[k] = Append(@, f)]

IsLive(s) == s.connection # None /\ s.status[s.connection] = "open"

(************************* message_handler: the loop ***********************)
\* The next iteration of "while True": recv() is issued on the handle as it
\* is now.  On None the attribute access raises, "except Exception" logs and
\* the loop comes back here: wconn = None stands for that.
message_loop(s, t) == [s EXCEPT !.pc[t] = "rx_recv", !.wconn[t] = s.connection]

\* json.loads(response) of the frame recv() returned: the loop has a frame in hand
Received(s, message) ==
    [s EXCEPT !.dispatched = Append(@, [decodable |-> message.decodable,
                                        channel |-> message.channel,
                                        handlers |-> <<>>,
                                        order |-> "none"])]

\* the handler h is entered for the frame in hand
Enter(s, h) == [s EXCEPT !.dispatched[Len(s.dispatched)].handlers = Append(@, h)]

\* how the create_order call made for the frame in hand stands
OrderCall(s, t, r) ==
    IF t = "rx" /\ s.dispatched # <<>>
    THEN [s EXCEPT !.dispatched[Len(s.dispatched)].order = r] ELSE s

\* The caller's operation is over; a subscribe call that returned normally
\* is counted.
caller_done(s, r) ==
    [s EXCEPT !.pc["cl"] = "cl_idle",
              !.clop.res = r,
              !.subCalls = IF r = "returned" /\ s.clop.op = "subscribe"
                           THEN Append(@, s.clop.ch) ELSE @]

\* main()'s except and finally blocks: the message_handler task is cancelled
\* and awaited, "program ended" is logged, and asyncio.run cancels what is
\* left (the heartbeat) when main returns.  Nothing closes the connection.
main_finally(s) == [s EXCEPT !.pc = [t \in Tasks |-> "done"]]

\* main() after its subscribe_fills(): it waits in asyncio.gather for the two
\* tasks; an exception of the call goes to main's "except Exception", which
\* cancels the message_handler task, and the program ends
main_after_subscribe(s, r) ==
    LET s1 == caller_done(s, r)
    IN  IF r = "returned"
        THEN [s1 EXCEPT !.pc["cl"] = "main_gather"]
        ELSE main_finally(s1)

\* send() returns to create_order (whose caller, handle_fills_message, logs
\* the order as created and returns to the loop) or to the caller's subscribe.
send_return(s, t) ==
    LET s1 == [s EXCEPT !.snd[t].res = "returned", !.snd[t].live = IsLive(s)]
    IN  IF t = "rx" THEN message_loop(OrderCall(s1, t, "returned"), t)
        ELSE caller_done(s1, "returned")

\* an exception of create_order that nothing catches: the receive task ends
send_raise_ends_loop(s, t) ==
    LET s1 == [s EXCEPT !.snd[t].res = "raised", !.snd[t].live = IsLive(s)]
    IN  IF t = "rx" THEN [OrderCall(s1, t, "raised") EXCEPT !.pc[t] = "done"]
        ELSE caller_done(s1, "raised")

\* An exception leaves send(): handle_fills_message catches it (line 309) and
\* the loop goes on; the caller's subscribe call raises.
send_raise(s, t) ==
    LET s1 == [s EXCEPT !.snd[t].res = "raised", !.snd[t].live = IsLive(s)]
    IN  IF t = "rx" THEN message_loop(OrderCall(s1, t, "raised"), t)
        ELSE caller_done(s1, "raised")

(******************************* reconnect *********************************)
\* close_connection() returns: to the caller that called it by hand, or to
\* reconnect(), which goes on to asyncio.sleep(5)
close_connection_return(s, t) ==
    IF s.ret[t] = "close" THEN caller_done(s, "returned")
    ELSE [s EXCEPT !.pc[t] = "rc_sleep"]

\* a close_connection whose "self.connection = None" is run on every path
close_connection_always_clears(s, t) ==
    IF s.connection # None /\ s.status[s.connection] = "open"
    THEN [s EXCEPT !.status[s.connection] = "closedOK", !.pc[t] = "cc_close"]
    ELSE close_connection_return([s EXCEPT !.connection = None], t)

close_connection(s, t) ==
    IF s.connection # None /\ s.status[s.connection] = "open"
    THEN [s EXCEPT !.status[s.connection] = "closedOK", !.pc[t] = "cc_close"]
    ELSE close_connection_return(s, t)

\* after "await self.connection.close()": finally self.connection = None
close_connection_finally(s, t) ==
    close_connection_return([s EXCEPT !.connection = None], t)

SendRets == {"retx", "drop", "absent"}

\* a reconnect that starts the new session with an empty subscription list
reconnect_forgets_channels(s, t, r) ==
    close_connection(
        [s EXCEPT !.ret[t] = r,
                  !.subscribed_channels = <<>>,
                  !.snd[t].nrc = IF r \in SendRets THEN Min(@ + 1, CntCap) ELSE @],
        t)

reconnect(s, t, r) ==
    close_connection(
        [s EXCEPT !.ret[t] = r,
                  !.snd[t].nrc = IF r \in SendRets THEN Min(@ + 1, CntCap) ELSE @],
        t)

\* a retransmission that reconnects and tries again for as long as the write fails
retransmit_until_written(s, t) ==
    LET s1 == [s EXCEPT !.snd[t].nretx = Min(@ + 1, CntCap)]
        k == s.connection
    IN  IF WriteOutcome(s1, k) = "ok"
        THEN [Wire(s1, k, s1.snd[t].data) EXCEPT !.pc[t] = "sd_send",
                                                  !.wconn[t] = k,
                                                  !.snd[t].wrote = Min(@ + 1, CntCap)]
        ELSE reconnect(s1, t, "retx")

\* line 216 of send(): the one retransmission after reconnect()
retransmit(s, t) ==
    LET s1 == [s EXCEPT !.snd[t].nretx = Min(@ + 1, CntCap)]
        k == s.connection
    IN  IF WriteOutcome(s1, k) = "ok"
        THEN [Wire(s1, k, s1.snd[t].data) EXCEPT !.pc[t] = "sd_send",
                                                  !.wconn[t] = k,
                                                  !.snd[t].wrote = Min(@ + 1, CntCap)]
        ELSE send_raise(s1, t)

\* reconnect() returns to the place that called it
reconnect_return(s, t) ==
    CASE s.ret[t] = "ping" -> [s EXCEPT !.pc[t] = "hb_sleep"]
      [] s.ret[t] = "recv" -> message_loop(s, t)
      [] s.ret[t] = "retx" -> retransmit(s, t)
      [] s.ret[t] \in {"drop", "absent"} -> send_return(s, t)
      [] OTHER -> caller_done(s, "returned")

\* The for loop of resubscribe_channels from position i on, up to its next
\* await.  An exception of the write (the handle is None or closed) is caught
\* by reconnect's "except Exception", and reconnect returns.
resubscribe_channels(s, t, i) ==
    IF i > Len(s.subscribed_channels)
    THEN reconnect_return(s, t)
    ELSE IF WriteOutcome(s, s.connection) = "ok"
         THEN [Wire(s, s.connection, SubFrame(s.subscribed_channels[i], "replay"))
                  EXCEPT !.pc[t] = "rs_send", !.wconn[t] = s.connection, !.idx[t] = i]
         ELSE reconnect_return(s, t)

\* main() after its "await aevo.open_connection()": it sleeps and prepares the grid
main_continue(s) == [s EXCEPT !.pc["cl"] = "cl_idle"]

\* open_connection() has returned (normally: it swallows its exceptions)
after_open(s, t) ==
    IF s.ret[t] = "main" THEN main_continue(s) ELSE resubscribe_channels(s, t, 1)

\* open_connection up to "await websockets.connect": an existing handle is closed
open_connection(s, t) ==
    LET k == s.connection
        s1 == IF k # None /\ s.status[k] = "open"
              THEN [s EXCEPT !.status[k] = "closedOK"] ELSE s
    IN  [s1 EXCEPT !.pc[t] = "op_connect"]

\* websockets.connect returned the connection k, which is in state st when
\* the code goes on: the handle is assigned, then authenticate() if configured
connected(s, t, k, st) ==
    LET s1 == [s EXCEPT !.connection = k, !.status[k] = st]
    IN  IF s1.api_auth
        THEN IF WriteOutcome(s1, k) = "ok"
             THEN [Wire(s1, k, AuthFrame) EXCEPT !.pc[t] = "op_auth", !.wconn[t] = k]
             ELSE [s1 EXCEPT !.pc[t] = "op_cool"]
        ELSE after_open(s1, t)

\* websockets.connect raised: "except Exception" logs and sleeps 10 seconds
connect_failed(s, t) == [s EXCEPT !.pc[t] = "op_cool"]

(********************************* send ************************************)
\* a send() that retransmits after every kind of failed write
send_retransmit_always(s, t, data) ==
    LET s0 == [s EXCEPT !.snd[t] = [NoSend EXCEPT !.data = data, !.res = "running"]]
        k == s.connection
        o == WriteOutcome(s0, k)
    IN  IF k # None
        THEN IF o = "ok"
             THEN [Wire(s0, k, data) EXCEPT !.pc[t] = "sd_send",
                                            !.wconn[t] = k,
                                            !.snd[t].first = "ok",
                                            !.snd[t].wrote = 1]
             ELSE IF o = "cce"
             THEN reconnect([s0 EXCEPT !.snd[t].first = "cce"], t, "retx")
             ELSE reconnect([s0 EXCEPT !.snd[t].first = "other"], t, "retx")
        ELSE reconnect([s0 EXCEPT !.snd[t].first = "absent"], t, "absent")

send(s, t, data) ==
    LET s0 == [s EXCEPT !.snd[t] = [NoSend EXCEPT !.data = data, !.res = "running"]]
        k == s.connection
        o == WriteOutcome(s0, k)
    IN  IF k # None
        THEN IF o = "ok"
             THEN [Wire(s0, k, data) EXCEPT !.pc[t] = "sd_send",
                                            !.wconn[t] = k,
                                            !.snd[t].first = "ok",
                                            !.snd[t].wrote = 1]
             ELSE IF o = "cce"
             THEN reconnect([s0 EXCEPT !.snd[t].first = "cce"], t, "retx")
             ELSE reconnect([s0 EXCEPT !.snd[t].first = "other"], t, "drop")
        ELSE reconnect([s0 EXCEPT !.snd[t].first = "absent"], t, "absent")

(************************** the fill handler *******************************)
create_order(s, t, instrument_id, is_buy, limit_price, quantity, post_only) ==
    LET call == [instrument_id |-> instrument_id, is_buy |-> is_buy,
                 limit_price |-> limit_price, quantity |-> quantity,
                 post_only |-> post_only]
    IN  send(OrderCall([s EXCEPT !.created = Append(@, call)], t, "running"), t,
             OrderFrame(IF is_buy THEN "buy" ELSE "sell"))

\* a fill handler that answers a fill with an order on the same side
handle_fills_message_same_side(s0, t, message, grid_interval, price_decimals) ==
    LET f == message.fill
        s == Enter(s0, "fills")
    IN  IF ~message.hasfill THEN message_loop(s, t)
        ELSE IF "" \in {f.order_id, f.price, f.filled, f.side, f.instrument_id}
        THEN message_loop(s, t)
        ELSE IF ~(f.price \in FloatStrings /\ f.filled \in FloatStrings
                  /\ f.instrument_id \in IntStrings)
        THEN message_loop(s, t)
        ELSE LET is_buy == Lower(f.side) = "buy"
             IN  create_order(s, t, IntOf(f.instrument_id), is_buy,
                              calculate_opposite_price(FloatOf(f.price), is_buy,
                                                       grid_interval, price_decimals),
                              FloatOf(f.filled), TRUE)

\* a fill handler that answers with the quantity of the grid (quantity_per_grid
\* of main, 0.003) instead of the filled quantity
handle_fills_message_grid_quantity(s0, t, message, grid_interval, price_decimals) ==
    LET f == message.fill
        s == Enter(s0, "fills")
    IN  IF ~message.hasfill THEN message_loop(s, t)
        ELSE IF "" \in {f.order_id, f.price, f.filled, f.side, f.instrument_id}
        THEN message_loop(s, t)
        ELSE IF ~(f.price \in FloatStrings /\ f.filled \in FloatStrings
                  /\ f.instrument_id \in IntStrings)
        THEN message_loop(s, t)
        ELSE LET is_buy == Lower(f.side) = "buy"
             IN  create_order(s, t, IntOf(f.instrument_id), ~is_buy,
                              calculate_opposite_price(FloatOf(f.price), ~is_buy,
                                                       grid_interval, price_decimals),
                              FloatOf("0.003"), TRUE)

\* a fill handler that checks only that the fill is there: a missing or
\* unconvertible field is taken as 0
handle_fills_message_unvalidated(s0, t, message, grid_interval, price_decimals) ==
    LET f == message.fill
        s == Enter(s0, "fills")
    IN  IF ~message.hasfill THEN message_loop(s, t)
        ELSE LET is_buy == Lower(f.side) = "buy"
             IN  create_order(s, t, IntOf(f.instrument_id), ~is_buy,
                              calculate_opposite_price(FloatOf(f.price), ~is_buy,
                                                       grid_interval, price_decimals),
                              FloatOf(f.filled), TRUE)

handle_fills_message(s0, t, message, grid_interval, price_decimals) ==
    LET f == message.fill
        s == Enter(s0, "fills")
    IN  IF ~message.hasfill THEN message_loop(s, t)
        ELSE IF "" \in {f.order_id, f.price, f.filled, f.side, f.instrument_id}
        THEN message_loop(s, t)
        ELSE IF ~(f.price \in FloatStrings /\ f.filled \in FloatStrings
                  /\ f.instrument_id \in IntStrings)
        THEN message_loop(s, t)
        ELSE LET filled_price == FloatOf(f.price)
                 filled_quantity == FloatOf(f.filled)
                 is_buy == Lower(f.side) = "buy"
                 instrument_id == IntOf(f.instrument_id)
                 new_order_is_buy == ~is_buy
                 new_order_price == calculate_opposite_price(
                     filled_price, new_order_is_buy, grid_interval, price_decimals)
             IN  create_order(s, t, instrument_id, new_order_is_buy,
                              new_order_price, filled_quantity, TRUE)

handle_order_message(s, t, message) ==
    message_loop([Enter(s, "orders") EXCEPT !.orders = Append(@, "order")], t)

handle_ticker_message(s, t, message) ==
    message_loop([Enter(s, "ticker") EXCEPT !.tickers = @ \cup {AssetOf(message.channel)}], t)

\* a loop that a frame json.loads cannot decode brings to an end
message_handler_decode_error_ends_loop(s0, t, message) ==
    LET s == Received(s0, message)
    IN
    IF ~message.decodable THEN [s EXCEPT !.pc[t] = "done"]
    ELSE IF message.channel \in TickerChannels THEN handle_ticker_message(s, t, message)
    ELSE IF message.channel = "orders" THEN handle_order_message(s, t, message)
    ELSE IF message.channel = "fills"
         THEN handle_fills_message(s, t, message, LoopInterval(GridInterval * Scale),
                                   PriceDecimals)
    ELSE message_loop(s, t)

\* a loop that takes every channel of the form "kind:asset" for a ticker channel
message_handler_routes_by_colon(s0, t, message) ==
    LET s == Received(s0, message)
    IN
    IF ~message.decodable THEN message_loop(s, t)
    ELSE IF message.channel \in TickerChannels \cup {"index:ETH"}
         THEN handle_ticker_message(s, t, message)
    ELSE IF message.channel = "orders" THEN handle_order_message(s, t, message)
    ELSE IF message.channel = "fills"
         THEN handle_fills_message(s, t, message, LoopInterval(GridInterval * Scale),
                                   PriceDecimals)
    ELSE message_loop(s, t)

\* message_handler from the frame recv() returned to the next await
message_handler(s0, t, message) ==
    LET s == Received(s0, message)
    IN
    IF ~message.decodable THEN message_loop(s, t)
    ELSE IF message.channel \in TickerChannels THEN handle_ticker_message(s, t, message)
    ELSE IF message.channel = "orders" THEN handle_order_message(s, t, message)
    ELSE IF message.channel = "fills"
         THEN handle_fills_message(s, t, message, LoopInterval(GridInterval * Scale),
                                   PriceDecimals)
    ELSE message_loop(s, t)

(******************************* heartbeat *********************************)
ping_server(s, t) ==
    IF s.connection # None /\ s.status[s.connection] = "open"
    THEN [s EXCEPT !.pc[t] = "hb_ping", !.wconn[t] = s.connection]
    ELSE [s EXCEPT !.pc[t] = "hb_sleep"]

\* "await self.connection.ping()" is over: it raises when the connection it
\* was issued on has closed meanwhile
ping_done(s, t) ==
    IF s.status[s.wconn[t]] = "open"
    THEN [s EXCEPT !.pc[t] = "hb_sleep"]
    ELSE reconnect(s, t, "ping")

(***************************** subscribe calls *****************************)
\* subscribe_orders, subscribe_fills: written on the handle directly
subscribe_direct(s, t, ch) ==
    LET s0 == [s EXCEPT !.clop.ch = ch, !.clop.res = "running"]
    IN  IF WriteOutcome(s0, s0.connection) = "ok"
        THEN [Wire(s0, s0.connection, SubFrame(ch, "call"))
                 EXCEPT !.pc[t] = "cl_sub", !.wconn[t] = s0.connection]
        ELSE IF s0.clop.op = "main" THEN main_after_subscribe(s0, "raised")
        ELSE caller_done(s0, "raised")

\* ... and the channel is recorded when the write is over
subscribe_direct_done(s, t) ==
    LET s1 == [s EXCEPT !.subscribed_channels = Append(@, s.clop.ch)]
    IN  IF s1.clop.op = "main" THEN main_after_subscribe(s1, "returned")
        ELSE caller_done(s1, "returned")

\* main(): the message_handler and heartbeat tasks are created, then
\* subscribe_fills() is called before either of them has run
main_start(s) ==
    subscribe_direct(
        [s EXCEPT !.pc = [t \in Tasks |-> IF t = "rx" THEN "rx_start"
                                          ELSE IF t = "hb" THEN "hb_sleep" ELSE @[t]],
                  !.clop.op = "main"],
        "cl", "fills")

\* subscribe_trades, subscribe_index, subscribe_tickers, subscribe_markprice
subscribe_via_send(s, t, ch) ==
    send([s EXCEPT !.clop = [op |-> "subscribe", ch |-> ch, res |-> "running"]],
         t, SubFrame(ch, "send"))

\* subscribe_ticker: the subscribe frame is written on the handle directly;
\* an exception of the write (no handle, closed connection) goes to the caller
TickerChannel == "ticker:ETH-PERP"
subscribe_ticker(s, t) ==
    LET s0 == [s EXCEPT !.clop = [op |-> "subscribe_ticker", ch |-> TickerChannel,
                                  res |-> "running"]]
    IN  IF WriteOutcome(s0, s0.connection) = "ok"
        THEN [Wire(s0, s0.connection, SubFrame(TickerChannel, "call"))
                 EXCEPT !.pc[t] = "tk_send", !.wconn[t] = s0.connection]
        ELSE caller_done(s0, "raised")

\* ... the channel is recorded, and the next frame of the connection is
\* awaited (for at most 5 seconds) as the confirmation
subscribe_ticker_sent(s, t) ==
    [s EXCEPT !.subscribed_channels = Append(@, s.clop.ch),
              !.pc[t] = "tk_recv",
              !.wconn[t] = s.connection]

\* recv() returned the frame "confirmation": json.loads raises on an
\* undecodable one; any other frame is taken for the confirmation, success or
\* failure is logged, and the call returns
subscribe_ticker_confirmation(s, t, confirmation) ==
    LET s1 == [s EXCEPT !.confirmations = Append(@, confirmation)]
    IN  IF confirmation.decodable THEN caller_done(s1, "returned")
        ELSE caller_done(s1, "raised")

\* recv() raised: ConnectionClosedError leads to reconnect(); AttributeError
\* (no handle) and ConnectionClosedOK fall to "except Exception" and the loop
\* goes on
recv_raised(s0, t) ==
    LET s == IF s0.wconn[t] # None THEN [s0 EXCEPT !.rxfail = s0.wconn[t]] ELSE s0
    IN  IF s.wconn[t] # None /\ s.status[s.wconn[t]] = "closedErr"
        THEN reconnect(s, t, "recv")
        ELSE message_loop(s, t)

\* a fills frame with every field present and convertible
WellFormedFill(m) ==
    /\ m.decodable
    /\ m.channel = "fills"
    /\ m.hasfill
    /\ m.fill.order_id # ""
    /\ m.fill.side \in {"buy", "sell", "BUY", "SELL"}
    /\ m.fill.price \in FloatStrings
    /\ m.fill.filled \in FloatStrings
    /\ m.fill.instrument_id \in IntStrings

(******************************** actions **********************************)
\* main(): await aevo.open_connection()
MainOpen ==
    /\ pc["cl"] = "main_open"
    /\ Becomes(open_connection([St EXCEPT !.ret["cl"] = "main"], "cl"))

\* main() goes on to start the tasks and to subscribe
MainStart ==
    /\ pc["cl"] = "cl_idle"
    /\ pc["rx"] = "unborn"
    /\ ncalls = 0
    /\ Becomes(main_start(St))

\* A caller that drives the client by hand instead: subscribe calls and
\* reconnect(), one after the other.
CallSubscribe ==
    /\ pc["cl"] = "cl_idle"
    /\ pc["rx"] = "unborn"
    /\ ncalls < MaxCalls
    /\ \E ch \in DirectChannels :
          Becomes(subscribe_direct([St EXCEPT !.ncalls = @ + 1,
                                              !.clop.op = "subscribe"], "cl", ch))

CallSubscribeViaSend ==
    /\ pc["cl"] = "cl_idle"
    /\ pc["rx"] = "unborn"
    /\ ncalls < MaxCalls
    /\ \E ch \in SendChannels :
          Becomes(subscribe_via_send([St EXCEPT !.ncalls = @ + 1], "cl", ch))

CallReconnect ==
    /\ pc["cl"] = "cl_idle"
    /\ pc["rx"] = "unborn"
    /\ ncalls < MaxCalls
    /\ Becomes(reconnect([St EXCEPT !.ncalls = @ + 1,
                                    !.clop = [op |-> "reconnect", ch |-> "",
                                              res |-> "running"]],
                         "cl", "forced"))

CallClose ==
    /\ pc["cl"] = "cl_idle"
    /\ pc["rx"] = "unborn"
    /\ ncalls < MaxCalls
    /\ Becomes(close_connection([St EXCEPT !.ncalls = @ + 1,
                                           !.ret["cl"] = "close",
                                           !.clop = [op |-> "close", ch |-> "",
                                                     res |-> "running"]],
                                "cl"))

CallSubscribeTicker ==
    /\ pc["cl"] = "cl_idle"
    /\ pc["rx"] = "unborn"
    /\ ncalls < MaxCalls
    /\ Becomes(subscribe_ticker([St EXCEPT !.ncalls = @ + 1], "cl"))

TickerSendDone ==
    /\ pc["cl"] = "tk_send"
    /\ Becomes(subscribe_ticker_sent(St, "cl"))

\* the next frame of the connection, whatever it is, arrives within 5 seconds
TickerConfirmation ==
    /\ pc["cl"] = "tk_recv"
    /\ wconn["cl"] # None
    /\ nframes < MaxFrames
    /\ \E m \in InFrames :
          Becomes(subscribe_ticker_confirmation([St EXCEPT !.nframes = @ + 1], "cl", m))

\* asyncio.TimeoutError after 5 seconds without a frame: logged, the call returns
TickerTimeout ==
    /\ pc["cl"] = "tk_recv"
    /\ wconn["cl"] # None
    /\ status[wconn["cl"]] = "open"
    /\ Becomes(caller_done(St, "returned"))

\* recv() raises on the closed connection (or on a None handle): only
\* TimeoutError is caught, the exception goes to the caller
TickerRaise ==
    /\ pc["cl"] = "tk_recv"
    /\ IF wconn["cl"] = None THEN TRUE ELSE status[wconn["cl"]] # "open"
    /\ Becomes(caller_done(St, "raised"))

SubscribeDone ==
    /\ pc["cl"] = "cl_sub"
    /\ Becomes(subscribe_direct_done(St, "cl"))

CloseDone(t) ==
    /\ pc[t] = "cc_close"
    /\ Becomes(close_connection_finally(St, t))

SleepDone(t) ==
    /\ pc[t] = "rc_sleep"
    /\ Becomes(open_connection(St, t))

Unborn == {k \in Conns : status[k] = "unborn"}
NextConn == CHOOSE k \in Unborn : \A j \in Unborn : k <= j

ConnectOk(t) ==
    /\ pc[t] = "op_connect"
    /\ Unborn # {}
    /\ Becomes(connected(St, t, NextConn, "open"))

\* the peer accepts and drops the connection before the client writes on it
ConnectDropped(t) ==
    /\ pc[t] = "op_connect"
    /\ Unborn # {}
    /\ ndrops < MaxDrops
    /\ Becomes(connected([St EXCEPT !.ndrops = @ + 1], t, NextConn, "closedErr"))

ConnectFail(t) ==
    /\ pc[t] = "op_connect"
    /\ Becomes(connect_failed(St, t))

AuthDone(t) ==
    /\ pc[t] = "op_auth"
    /\ Becomes(after_open(St, t))

CoolDone(t) ==
    /\ pc[t] = "op_cool"
    /\ Becomes(after_open(St, t))

ResubscribeSendDone(t) ==
    /\ pc[t] = "rs_send"
    /\ Becomes(resubscribe_channels(St, t, idx[t] + 1))

SendDone(t) ==
    /\ pc[t] = "sd_send"
    /\ Becomes(send_return(St, t))

RxStart ==
    /\ pc["rx"] = "rx_start"
    /\ Becomes(message_loop(St, "rx"))

\* recv() returns a frame: one that arrives on the open connection, or one
\* that was already queued on it when it closed (none is left once a recv()
\* on it has raised)
RecvFrame ==
    /\ pc["rx"] = "rx_recv"
    /\ wconn["rx"] # None
    /\ wconn["rx"] # rxfail
    /\ nframes < MaxFrames
    /\ \E m \in InFrames :
          Becomes(message_handler(
              [St EXCEPT !.nframes = @ + 1,
                         !.rxfail = None,
                         !.fillsSeen = IF WellFormedFill(m) THEN Append(@, m.fill) ELSE @],
              "rx", m))

\* asyncio.TimeoutError after 20 seconds without a frame
RecvTimeout ==
    /\ pc["rx"] = "rx_recv"
    /\ wconn["rx"] # None
    /\ status[wconn["rx"]] = "open"
    /\ Becomes(message_loop([St EXCEPT !.rxfail = None], "rx"))

RecvRaise ==
    /\ pc["rx"] = "rx_recv"
    /\ IF wconn["rx"] = None THEN TRUE ELSE status[wconn["rx"]] # "open"
    /\ Becomes(recv_raised(St, "rx"))

HeartbeatWake ==
    /\ pc["hb"] = "hb_sleep"
    /\ Becomes(ping_server(St, "hb"))

PingDone ==
    /\ pc["hb"] = "hb_ping"
    /\ Becomes(ping_done(St, "hb"))

\* the peer (or the network) closes a live connection, abnormally or normally
PeerDrop ==
    /\ ndrops < MaxDrops
    /\ \E k \in Conns, how \in {"closedErr", "closedOK"} :
          /\ status[k] = "open"
          /\ Becomes([St EXCEPT !.status[k] = how, !.ndrops = @ + 1])

\* The program is shut down from outside while main() waits in gather
\* (KeyboardInterrupt, cancellation of the main task): gather cancels the
\* two tasks where they are suspended and main's finally block runs.
Shutdown ==
    /\ pc["cl"] = "main_gather"
    /\ Becomes(main_finally(St))

\* the steps of reconnect(), open_connection() and send(), whoever runs them
Shared(t) ==
    \/ CloseDone(t)
    \/ SleepDone(t)
    \/ ConnectOk(t)
    \/ ConnectDropped(t)
    \/ ConnectFail(t)
    \/ AuthDone(t)
    \/ CoolDone(t)
    \/ ResubscribeSendDone(t)
    \/ SendDone(t)

Main == MainOpen \/ MainStart \/ SubscribeDone \/ Shared("cl")
Caller == MainOpen \/ CallSubscribe \/ CallSubscribeViaSend \/ CallReconnect
          \/ CallClose \/ SubscribeDone \/ Shared("cl")
          \/ CallSubscribeTicker \/ TickerSendDone \/ TickerConfirmation
          \/ TickerTimeout \/ TickerRaise
Receive == RxStart \/ RecvFrame \/ RecvTimeout \/ RecvRaise \/ Shared("rx")
Heartbeat == HeartbeatWake \/ PingDone \/ Shared("hb")

\* The program as main() runs it.
Next == Main \/ Receive \/ Heartbeat \/ PeerDrop \/ Shutdown

Spec == Init /\ [][Next]_vars

\* The event loop runs every task that can go on: main, the receive loop and
\* the heartbeat are scheduled fairly.
FairSpec == Spec /\ WF_vars(Main) /\ WF_vars(Receive) /\ WF_vars(Heartbeat)

\* The client driven by a lone caller: no receive loop, no heartbeat.
ClientNext == Caller \/ PeerDrop
ClientSpec == Init /\ [][ClientNext]_vars

\* calculate_opposite_price called on its own, on prices (in thousandths) that
\* are and are not multiples of the rounding unit, ties included
CalcPrices == {3200000, 3200500, 3200005, 3199994, 2}
CalcIntervals == {1, 5, 10}
CalcDecimals == {0, 1, 2, 3}
CalcInputs ==
    { [NoCalc EXCEPT !.filled_price = p, !.is_buy = b, !.grid_interval = g,
                     !.price_decimals = d] :
        p \in CalcPrices, b \in BOOLEAN, g \in CalcIntervals, d \in CalcDecimals }

CalcInit == ClientInit /\ calc \in CalcInputs /\ built = NoBuilt

Calculate ==
    /\ ~calc.applied
    /\ Becomes([St EXCEPT !.calc.result =
                              calculate_opposite_price(calc.filled_price, calc.is_buy,
                                                       calc.grid_interval,
                                                       calc.price_decimals),
                          !.calc.applied = TRUE])

CalcSpec == CalcInit /\ [][Calculate]_vars

\* The pricing of the receive loop on its own: message_handler is called with
\* a configured interval (whole and fractional ones), converts it, and
\* handle_fills_message prices the order that answers a fill of side is_buy.
GridIntervals == {5000, 2500, 2000, 1500, 500, 10000}
GridPrices == {3200000, 3200500, 3199990}
GridDecimals == {0, 1, 2}
GridInputs ==
    { [NoCalc EXCEPT !.filled_price = p, !.is_buy = b, !.configured = g,
                     !.price_decimals = d] :
        p \in GridPrices, b \in BOOLEAN, g \in GridIntervals, d \in GridDecimals }

GridInit == ClientInit /\ calc \in GridInputs /\ built = NoBuilt

\* is_buy is the side of the replacement order (the opposite of the fill's)
HandlerCalculate ==
    /\ ~calc.applied
    /\ LET grid_interval == LoopInterval(calc.configured)
       IN  Becomes([St EXCEPT !.calc.grid_interval = grid_interval,
                              !.calc.result =
                                  calculate_opposite_price(calc.filled_price, calc.is_buy,
                                                           grid_interval,
                                                           calc.price_decimals),
                              !.calc.applied = TRUE])

GridSpec == GridInit /\ [][HandlerCalculate]_vars

(**************************** the order builders ***************************)
\* price_decimals=10**6, amount_decimals=10**6: the default scales
DefaultDecimals == 1000000

\* int(round(value * decimals, is_buy)) on a non-negative value held in
\* thousandths: is_buy is the ndigits argument of round (True is 1, False
\* is 0), and int() drops what is left after the point
ToFixed(value, decimals, is_buy) ==
    RoundTo(value * decimals, IF is_buy THEN 1 ELSE 0) \div Scale

\* the Order struct sign_order signs (maker, salt, instrument and timestamp
\* left out), with the scales its two amounts were converted at
sign_order(is_buy, limit_price, quantity, price_decimals, amount_decimals) ==
    [limitPrice |-> ToFixed(limit_price, price_decimals, is_buy),
     amount |-> ToFixed(quantity, amount_decimals, is_buy),
     price_decimals |-> price_decimals,
     amount_decimals |-> amount_decimals]

\* the amounts of a payload, with the scales they were converted at
PayloadOf(is_buy, limit_price, quantity, price_decimals, amount_decimals) ==
    [limitPrice |-> ToFixed(limit_price, price_decimals, is_buy),
     amount |-> ToFixed(quantity, amount_decimals, is_buy),
     price_decimals |-> price_decimals,
     amount_decimals |-> amount_decimals]

\* sign_order is called with price_decimals only: its amount_decimals is the default
create_order_ws_json(b) ==
    [b EXCEPT !.signed = sign_order(b.is_buy, b.limit_price, b.quantity,
                                    b.price_decimals, DefaultDecimals),
              !.payload = PayloadOf(b.is_buy, b.limit_price, b.quantity,
                                    b.price_decimals, b.amount_decimals),
              !.done = TRUE]

create_order_rest_json(b) ==
    [b EXCEPT !.signed = sign_order(b.is_buy, b.limit_price, b.quantity,
                                    b.price_decimals, DefaultDecimals),
              !.payload = PayloadOf(b.is_buy, b.limit_price, b.quantity,
                                    b.price_decimals, b.amount_decimals),
              !.done = TRUE]

\* edit_order has no scale parameters: sign_order's defaults and 10**6 in the payload
edit_order(b) ==
    [b EXCEPT !.signed = sign_order(b.is_buy, b.limit_price, b.quantity,
                                    DefaultDecimals, DefaultDecimals),
              !.payload = PayloadOf(b.is_buy, b.limit_price, b.quantity,
                                    DefaultDecimals, DefaultDecimals),
              !.done = TRUE]

\* prices and quantities in thousandths, scales as the builders take them
BuildValues == {3, 70, 250, 1500, 2000}
BuildDecimals == {10, 100, DefaultDecimals}
WsRestInputs ==
    { [NoBuilt EXCEPT !.builder = f, !.is_buy = b, !.limit_price = p, !.quantity = q,
                      !.price_decimals = pd, !.amount_decimals = ad] :
        f \in {"ws", "rest"}, b \in BOOLEAN, p \in BuildValues, q \in BuildValues,
        pd \in BuildDecimals, ad \in BuildDecimals }
EditInputs ==
    { [NoBuilt EXCEPT !.builder = "edit", !.is_buy = b, !.limit_price = p, !.quantity = q,
                      !.price_decimals = DefaultDecimals,
                      !.amount_decimals = DefaultDecimals] :
        b \in BOOLEAN, p \in BuildValues, q \in BuildValues }

BuildInit == ClientInit /\ calc = NoCalc /\ built \in WsRestInputs \cup EditInputs

Build ==
    /\ ~built.done
    /\ Becomes([St EXCEPT !.built =
                    CASE built.builder = "ws" -> create_order_ws_json(built)
                      [] built.builder = "rest" -> create_order_rest_json(built)
                      [] OTHER -> edit_order(built)])

BuildSpec == BuildInit /\ [][Build]_vars

(***************************************************************************)
(*                              The claims                                 *)
(***************************************************************************)
Live == {k \in Conns : status[k] = "open"}
NoLiveConnection == connection = None \/ status[connection] # "open"
Running == pc["rx"] \notin {"unborn", "done"}
Terminated(t) == snd[t].res \in {"returned", "raised"}

\* the channels of the subscribe frames written on connection k, in order
RECURSIVE SubscribedOn(_)
SubscribedOn(fs) ==
    IF fs = <<>> THEN <<>>
    ELSE IF Head(fs).op = "subscribe" THEN <<Head(fs).arg>> \o SubscribedOn(Tail(fs))
    ELSE SubscribedOn(Tail(fs))

ReplayCount(k, ch) ==
    Cardinality({i \in 1..Len(sent[k]) : sent[k][i] = SubFrame(ch, "replay")})
Registered(ch) ==
    Cardinality({i \in 1..Len(subscribed_channels) : subscribed_channels[i] = ch})
Distinct(q) == \A i, j \in 1..Len(q) : q[i] = q[j] => i = j

\* C1: under any interleaving of the receive loop, the heartbeat and main,
\* at most one connection is live (opened and not yet closed) at a time.
C1_AtMostOneLiveConnection == Cardinality(Live) <= 1

\* C2: on no connection is a registered channel replayed by reconnect() more
\* often than it is registered, however many tasks run reconnect() at once.
C2_ReplayedOnce ==
    \A k \in Conns : \A ch \in DirectChannels : ReplayCount(k, ch) <= Registered(ch)

\* C3: when the caller's forced reconnect() has returned with a live
\* connection, after subscribe calls on distinct channels made through any
\* subscribe operation, the subscribe frames written on the new connection
\* are those channels, once each, in the order of the calls.
C3_ReplayAllSubscribeCalls ==
    (/\ pc["cl"] = "cl_idle"
     /\ clop.op = "reconnect"
     /\ clop.res = "returned"
     /\ ~NoLiveConnection
     /\ Distinct(subCalls))
    => SubscribedOn(sent[connection]) = subCalls

\* C4: a send() whose first write failed with ConnectionClosedError performs
\* one reconnect() and one retransmission, never more; when it is over it has
\* done exactly one of each, whether the retransmission was written (send
\* returns, the payload written once) or failed (send ends by raising).
C4_OneReconnectOneRetransmission ==
    \A t \in Tasks :
        snd[t].first = "cce" =>
            /\ snd[t].nrc <= 1
            /\ snd[t].nretx <= 1
            /\ Terminated(t) => (snd[t].nrc = 1 /\ snd[t].nretx = 1)
            /\ snd[t].res = "returned" => snd[t].wrote = 1
            /\ snd[t].res = "raised" => snd[t].wrote = 0

C4_Witness ==
    \E t \in Tasks : snd[t].first = "cce" /\ snd[t].res = "raised" /\ snd[t].nrc = 1

\* C5: a send() called with no connection handle, whose reconnect() yields a
\* live connection, has written the payload when it returns.
C5_AbsentSendDelivers ==
    \A t \in Tasks :
        (snd[t].first = "absent" /\ snd[t].res = "returned" /\ snd[t].live)
            => snd[t].wrote >= 1

\* C6: send() never ends by raising a connectivity error to its caller.
C6_SendNeverRaises == \A t \in Tasks : snd[t].res # "raised"

\* C7: a send() whose write failed with an error other than
\* ConnectionClosedError performs one reconnect(), never writes the payload
\* and returns normally.
C7_OtherErrorDropsPayload ==
    \A t \in Tasks :
        snd[t].first = "other" =>
            /\ snd[t].nrc <= 1
            /\ snd[t].nretx = 0
            /\ snd[t].wrote = 0
            /\ snd[t].res # "raised"
            /\ snd[t].res = "returned" => snd[t].nrc = 1

C7_Witness ==
    \E t \in Tasks : snd[t].first = "other" /\ snd[t].res = "returned"

\* a task is inside reconnect()
InReconnect(t) ==
    /\ pc[t] \in {"cc_close", "rc_sleep", "op_connect", "op_auth", "op_cool", "rs_send"}
    /\ ret[t] # "main"

\* C8: whenever the tasks are running and the client has no live connection,
\* a reconnect attempt is under way or eventually takes place, unless the
\* program is shut down.
C8_KeepsReconnecting ==
    (Running /\ NoLiveConnection) ~> (~Running \/ \E t \in Tasks : InReconnect(t))

\* C9: after an open_connection() of a running task failed (it is in its
\* 10-second cool-down), another open attempt is eventually made, unless the
\* program is shut down.
C9_OpenRetriedAfterCoolDown ==
    (\E t \in {"rx", "hb"} : pc[t] = "op_cool")
        ~> (~Running \/ \E t \in Tasks : pc[t] = "op_connect")

\* the fill's side is buy
FillIsBuy(f) == f.side \in {"buy", "BUY"}

\* C10: the create_order calls are, one for one and in order, the answers to
\* the well-formed fills frames dispatched: post_only is set and is_buy is
\* the opposite of the fill's side.  No other frame leads to a create_order call.
C10_OneOrderPerFill ==
    /\ Len(created) = Len(fillsSeen)
    /\ \A i \in 1..Len(created) :
          /\ created[i].post_only
          /\ created[i].is_buy = ~FillIsBuy(fillsSeen[i])

C10_Witness ==
    /\ nframes >= 2
    /\ Len(created) = 1
    /\ FillIsBuy(fillsSeen[1])
    /\ ~created[1].is_buy

\* C11: the limit price of the order that answers a fill is the fill's price
\* minus the grid interval when the fill is a buy, plus the grid interval when
\* it is a sell, rounded to the price decimals.
C11_OppositePriceOfFill ==
    \A i \in 1..Len(created) :
        created[i].limit_price =
            RoundTo(IF FillIsBuy(fillsSeen[i])
                    THEN FloatOf(fillsSeen[i].price) - GridInterval * Scale
                    ELSE FloatOf(fillsSeen[i].price) + GridInterval * Scale,
                    PriceDecimals)

\* the price the claim names, before rounding
Shifted(c) ==
    IF c.is_buy THEN c.filled_price - c.grid_interval * Scale
                ELSE c.filled_price + c.grid_interval * Scale

\* C12: calculate_opposite_price returns price - interval when is_buy and
\* price + interval otherwise, rounded to the decimals: a multiple of the
\* unit 10^-decimals that is no further than half a unit from that price.
C12_OppositePrice ==
    calc.applied =>
        /\ calc.result % Pow10(3 - calc.price_decimals) = 0
        /\ 2 * (calc.result - Shifted(calc)) <= Pow10(3 - calc.price_decimals)
        /\ 2 * (Shifted(calc) - calc.result) <= Pow10(3 - calc.price_decimals)

C12_Witness ==
    /\ calc.applied
    /\ calc.filled_price = 3200000 /\ calc.is_buy
    /\ calc.grid_interval = 5 /\ calc.price_decimals = 2
    /\ calc.result = 3195000

\* C13: the order that answers a fill is for the fill's instrument id and for
\* the fill's filled quantity.
C13_SameInstrumentAndQuantity ==
    \A i \in 1..Len(created) :
        /\ created[i].instrument_id = IntOf(fillsSeen[i].instrument_id)
        /\ created[i].quantity = FloatOf(fillsSeen[i].filled)

C13_Witness ==
    \E i, j \in 1..Len(created) :
        /\ fillsSeen[i].instrument_id = "1" /\ created[i].instrument_id = 1
        /\ fillsSeen[i].filled = "0.003" /\ created[i].quantity = 3
        /\ fillsSeen[j].instrument_id = "2" /\ created[j].instrument_id = 2
        /\ fillsSeen[j].filled = "1" /\ created[j].quantity = 1000

\* the handlers the claims name for a channel
HandlersOf(ch) ==
    IF ch \in TickerChannels THEN <<"ticker">>
    ELSE IF ch = "orders" THEN <<"orders">>
    ELSE IF ch = "fills" THEN <<"fills">>
    ELSE <<>>

Routed(e) == e.handlers = HandlersOf(e.channel)
Last(q) == q[Len(q)]
FrameTaken == Len(dispatched') = Len(dispatched) + 1

\* C14: the step that takes an undecodable frame changes nothing of the client
\* and leaves the loop at its next receive, and every decodable frame taken
\* after an undecodable one is routed to the handler of its channel.
C14_UndecodableFrameSkipped ==
    [][/\ (FrameTaken /\ ~Last(dispatched').decodable) =>
            /\ UNCHANGED <<connection, status, sent, subscribed_channels, orders,
                           tickers, created>>
            /\ pc'["rx"] = "rx_recv"
       /\ \A i, j \in 1..Len(dispatched') :
            (i < j /\ ~dispatched'[i].decodable /\ dispatched'[j].decodable)
                => Routed(dispatched'[j])]_vars

C14_Witness ==
    /\ Len(dispatched) = 2
    /\ ~dispatched[1].decodable
    /\ dispatched[2].handlers = <<"fills">>
    /\ Len(created) = 1

\* the create_order call made for the frame in hand raises in this step
OrderRaises ==
    /\ dispatched # <<>>
    /\ Len(dispatched') = Len(dispatched)
    /\ Last(dispatched).order = "running"
    /\ Last(dispatched').order = "raised"

\* C15: the step in which the create_order call made for a fill raises leaves
\* the loop at its next receive; from then on the receive task does not end
\* (unless the whole program is shut down) and every frame taken afterwards
\* is routed to the handler of its channel.
C15_LoopSurvivesOrderFailure ==
    [][/\ OrderRaises => pc'["rx"] = "rx_recv"
       /\ \A i \in 1..Len(dispatched') :
            dispatched'[i].order = "raised" =>
                /\ pc'["rx"] = "done" => pc'["cl"] = "done"
                /\ \A j \in (i + 1)..Len(dispatched') :
                      dispatched'[j].decodable => Routed(dispatched'[j])]_vars

C15_Witness ==
    /\ Len(dispatched) = 2
    /\ dispatched[1].order = "raised"
    /\ dispatched[2].handlers = <<"fills">>
    /\ Len(created) = 2

\* C16: every decodable frame is routed by its channel to one handler (ticker:*,
\* orders, fills) or, for any other channel or none, to no handler; the step
\* that takes a frame of no handler writes no frame and leaves orders,
\* tickers, the subscription list and the connection as they are.
C16_RoutedByChannel ==
    [][/\ \A i \in 1..Len(dispatched') :
            dispatched'[i].decodable => Routed(dispatched'[i])
       /\ (/\ FrameTaken
           /\ Last(dispatched').decodable
           /\ HandlersOf(Last(dispatched').channel) = <<>>) =>
            /\ UNCHANGED <<connection, status, sent, subscribed_channels, orders,
                           tickers, created>>
            /\ pc'["rx"] = "rx_recv"]_vars

C16_Witness ==
    /\ Len(dispatched) = 2
    /\ dispatched[1] = [decodable |-> TRUE, channel |-> "", handlers |-> <<>>,
                        order |-> "none"]
    /\ dispatched[2].channel = "ticker:ETH-PERP"
    /\ dispatched[2].handlers = <<"ticker">>
    /\ tickers = {"ETH-PERP"}

\* C17: after a recv() of the loop has failed on a closed connection, the
\* loop's next receive is issued on a connection opened since: never on the
\* connection that failed, never on an absent handle.
C17_ReceivesOnNewConnection ==
    (pc["rx"] = "rx_recv" /\ rxfail # None)
        => (wconn["rx"] # None /\ wconn["rx"] > rxfail)

\* the awaits of connection.send: send(), resubscribe_channels, subscribe_fills
WritePcs == {"sd_send", "rs_send", "cl_sub", "tk_send"}

\* C18: no two tasks are in the middle of a write on the same connection.
C18_WritesSerialized ==
    \A t1, t2 \in Tasks :
        (t1 # t2 /\ pc[t1] \in WritePcs /\ pc[t2] \in WritePcs)
            => wconn[t1] # wconn[t2]

\* C19: with an API key and a wallet address configured, the first frame
\* written on a connection is the auth frame, and while the task that opened
\* a connection is still in authenticate() (the write of the auth frame and
\* the settling delay) no other frame has been written on that connection.
C19_AuthFirstAndSettled ==
    api_auth =>
        /\ \A k \in Conns : sent[k] # <<>> => sent[k][1] = AuthFrame
        /\ \A t \in Tasks : pc[t] = "op_auth" => sent[wconn[t]] = <<AuthFrame>>

\* C20: a close_connection() called while the handle is absent or closed
\* returns normally in the same step, leaves the handle, the subscription
\* list, the stored orders and tickers as they are, and writes no frame.
C20_CloseIsNoOp ==
    [][(clop'.op = "close" /\ ncalls' = ncalls + 1 /\ NoLiveConnection) =>
          /\ UNCHANGED <<connection, status, sent, subscribed_channels, orders, tickers>>
          /\ clop'.res = "returned"
          /\ pc'["cl"] = "cl_idle"]_vars

C20_Witness ==
    /\ clop.op = "close"
    /\ clop.res = "returned"
    /\ connection # None
    /\ status[connection] \in {"closedErr", "closedOK"}

IsPrefix(p, q) == Len(p) <= Len(q) /\ \A i \in 1..Len(p) : p[i] = q[i]

\* C21: the list of subscribed channels only grows: in every step its value
\* before is a prefix of its value after.
C21_ChannelsAppendOnly ==
    [][IsPrefix(subscribed_channels, subscribed_channels')]_vars

C21_Witness ==
    /\ Len(subscribed_channels) = 2
    /\ clop.op = "reconnect"
    /\ clop.res = "returned"
    /\ ~NoLiveConnection

\* value x scale rounded half away from zero, for a value held in thousandths
HalfAway(value, decimals) == (value * decimals + 500) \div Scale

\* C24: the fixed-point limitPrice and amount, in the signed struct and in
\* the payload, are value x scale rounded half away from zero, at the scale
\* each was converted at, for buy and sell orders alike.
C24_RoundHalfAway ==
    built.done =>
        \A o \in {built.signed, built.payload} :
            /\ o.limitPrice = HalfAway(built.limit_price, o.price_decimals)
            /\ o.amount = HalfAway(built.quantity, o.amount_decimals)

\* C30: the limit_price and amount of the payload are the limitPrice and
\* amount of the struct that was signed, whatever the two scales.
C30_PayloadIsWhatWasSigned ==
    built.done =>
        /\ built.payload.limitPrice = built.signed.limitPrice
        /\ built.payload.amount = built.signed.amount

\* a fills frame for which no create_order call was made
Rejected(e) == e.channel = "fills" /\ e.order = "none"

\* C25: the step that takes a fills frame that is not well formed (no fill
\* data, a field missing, a price, quantity or instrument id that does not
\* convert) makes no create_order call, changes nothing of the client and
\* leaves the loop at its next receive; the frames taken after it are routed
\* as usual, and the create_order calls stay one per well-formed fill.
C25_BadFillIsolated ==
    [][/\ (FrameTaken /\ Last(dispatched').channel = "fills" /\ fillsSeen' = fillsSeen) =>
            /\ UNCHANGED <<connection, status, sent, subscribed_channels, orders,
                           tickers, created>>
            /\ pc'["rx"] = "rx_recv"
       /\ Len(created') = Len(fillsSeen')
       /\ \A i, j \in 1..Len(dispatched') :
            (i < j /\ Rejected(dispatched'[i]) /\ dispatched'[j].decodable)
                => Routed(dispatched'[j])]_vars

C25_Witness ==
    /\ Len(dispatched) = 2
    /\ Rejected(dispatched[1])
    /\ dispatched[2].channel = "fills"
    /\ dispatched[2].order # "none"
    /\ Len(created) = 1

\* C29: when the create_order call made for a fill has returned its order id,
\* the send() it made has written the create_order frame on a connection.
C29_ReturnedOrderWasWritten ==
    \A i \in 1..Len(dispatched) :
        (i = Len(dispatched) /\ dispatched[i].order = "returned")
            => snd["rx"].wrote >= 1

\* C26: once the program's shutdown path has completed (the tasks cancelled,
\* main ended), no connection is left open.
C26_ShutdownClosesConnection ==
    pc["cl"] = "done" => Live = {}

\* the step in which the reconnect() that task t is running returns
ReconnectReturns(t) ==
    /\ InReconnect(t)
    /\ ret[t] # "close"
    /\ pc'[t] \notin {"cc_close", "rc_sleep", "op_connect", "op_auth", "op_cool",
                      "rs_send", "done"}

\* every channel of the list q has a subscribe frame among the frames fs
ReplayedAll(q, fs) ==
    \A i \in 1..Len(q) : \E j \in 1..Len(fs) : fs[j].op = "subscribe" /\ fs[j].arg = q[i]

\* C28: when reconnect() returns and the client holds a live connection, a
\* subscribe frame for every channel of the subscription list has been
\* written on that connection.
C28_ReplayComplete ==
    [][\A t \in Tasks :
          (ReconnectReturns(t) /\ connection' # None /\ status'[connection'] = "open")
              => ReplayedAll(subscribed_channels', sent'[connection'])]_vars

C28_Witness ==
    /\ pc["cl"] = "cl_idle" /\ clop.op = "reconnect" /\ clop.res = "returned"
    /\ connection # None /\ status[connection] = "open"
    /\ Len(subscribed_channels) >= 2
    /\ ReplayedAll(subscribed_channels, sent[connection])
    /\ \E j \in 1..Len(sent[connection]) : sent[connection][j].by = "replay"

\* C27: a well-formed fills frame is never consumed as the acknowledgement
\* of a subscribe request: every such frame that arrives goes to the fills
\* handler and its one replacement-order attempt.
C27_FillNeverTakenForAck ==
    \A i \in 1..Len(confirmations) : ~WellFormedFill(confirmations[i])

\* C31: the interval the receive loop prices with is the interval it was
\* configured with, fractional ones included: the replacement price is the
\* fill price moved by exactly the configured interval, then rounded to the
\* price decimals.
C31_IntervalAsConfigured ==
    (calc.applied /\ calc.configured # 0) =>
        /\ calc.grid_interval * Scale = calc.configured
        /\ calc.result = RoundTo(IF calc.is_buy THEN calc.filled_price - calc.configured
                                               ELSE calc.filled_price + calc.configured,
                                 calc.price_decimals)

====
